---- MODULE Spec2Model ----
(***************************************************************************)
(* A model of the utility code of mongo-c-driver-async:                    *)
(*   tools/docs-build.py     the documentation build-and-publish           *)
(*                           orchestrator (main)                           *)
(*   tools/include-fixup.py  the #include directive normalizer             *)
(*   docs/conf.py             generate_sphinx_inventory                     *)
(* The orchestrator is a linear program; every step of main is one action  *)
(* and every external command returns a nondeterministic exit status.      *)
(***************************************************************************)
EXTENDS Integers, Sequences, FiniteSets, TLC

VARIABLES
    args,       \* the parsed command line of docs-build.py
    pc,         \* position of main in docs-build.py
    tmpdir,     \* the TemporaryDirectory of --clean-repo-branch
    scratch,    \* the scratch directory: does it exist, and its entries
    scratch0,   \* the scratch directory as it was when main started
    log,        \* the commands and file writes of the run so far, in order
    exit_code,  \* the exit status of the process, -1 while it runs
    exc,        \* the uncaught exception that ended main, and where
    files,      \* include-fixup.py: source_files, in glob order
    disk,       \* include-fixup.py: the bytes of every source file
    history,    \* include-fixup.py: one record per finished run
    inv_fs,     \* conf.py: the file at each output path of an inventory
    inv_calls,  \* conf.py: the last two calls of generate_sphinx_inventory
    inv_cur     \* conf.py: what the last call read from its output path

ovars == <<args, pc, tmpdir, scratch, scratch0, log, exit_code, exc>>
fvars == <<files, disk, history>>
ivars == <<inv_fs, inv_calls, inv_cur>>
vars == <<args, pc, tmpdir, scratch, scratch0, log, exit_code, exc,
          files, disk, history, inv_fs, inv_calls, inv_cur>>

(***************************************************************************)
(* docs-build.py                                                           *)
(***************************************************************************)

\* Exit statuses an external git command can end with.
ExitCodes == {0, 1, 128}

\* Results of sphinx.cmd.build.build_main: 0 success, 1 warnings under -W,
\* 2 an error during the build.
BuildCodes == {0, 1, 2}

\* The exit status of the interpreter when main ends by an uncaught exception.
UncaughtExit == 1

\* sys.exit(main(...)) with main returning None.
ReturnExit == 0

\* Names of entries of the scratch directory.
Entries == {".git", "page", ".buildinfo", ".nojekyll"}

\* What a build writes into its output directory.
BuildOutput == {"page", ".buildinfo"}

\* The git commands main runs with -C scratch_dir or with scratch_dir as target.
ScratchGitCmds == {"clone_remote", "rm", "add", "commit", "push"}

NoExc == [type |-> "none", at |-> "none"]

Event(cmd, rc) == [cmd |-> cmd, rc |-> rc]

\* ExitStack.__exit__: the TemporaryDirectory entered on the stack is removed.
ExitStackLeaks(t) == t
ExitStackClose(t) == IF t = "exists" THEN "removed" ELSE t

\* next(iter(scratch_dir.iterdir()), None) is not None, with the error of
\* iterdir on a directory that does not exist.
CheckScratchNeverRaises(s) == IF ~s.exists THEN "FileNotFoundError" ELSE "ok"
CheckScratch(s) ==
    IF ~s.exists THEN "FileNotFoundError"
    ELSE IF s.entries # {} THEN "RuntimeError"
    ELSE "ok"

\* shutil.rmtree(scratch_dir) with FileNotFoundError ignored.
DeletePrior(s) == [exists |-> FALSE, entries |-> {}]

\* if commit_branch is not None (the guard of the publish steps).
PublishAlways == TRUE
PublishRequested == args.commit_branch # "None"

\* if push.
PushRequested == args.push

InitFixupIdle ==
    /\ files = <<>>
    /\ disk = <<>>
    /\ history = <<>>

\* An output file that does not exist.
NoFile == [exists |-> FALSE, bytes |-> <<>>]

\* generate_sphinx_inventory has not been called.
InitInventoryIdle ==
    /\ inv_fs = <<>>
    /\ inv_calls = <<>>
    /\ inv_cur = NoFile

Init ==
    /\ args \in [clean_repo_branch : {"None", "main"},
                 commit_branch : {"None", "gh-pages"},
                 skip_remote_clone : BOOLEAN,
                 delete_prior : BOOLEAN,
                 push : BOOLEAN]
    /\ pc = "source"
    /\ tmpdir = "none"
    /\ scratch \in {[exists |-> FALSE, entries |-> {}]}
                   \cup [exists : {TRUE}, entries : SUBSET Entries]
    /\ scratch0 = scratch
    /\ log = <<>>
    /\ exit_code = -1
    /\ exc = NoExc
    /\ InitFixupIdle
    /\ InitInventoryIdle

\* An exception leaves the with-block: the stack is unwound and the
\* interpreter ends with the status of an uncaught exception.
Raise(type) ==
    /\ pc' = "exited"
    /\ exc' = [type |-> type, at |-> pc]
    /\ exit_code' = UncaughtExit
    /\ tmpdir' = ExitStackClose(tmpdir)

\* main returns None at the end of the with-block.
Return ==
    /\ pc' = "exited"
    /\ exc' = exc
    /\ exit_code' = ReturnExit
    /\ tmpdir' = ExitStackClose(tmpdir)

Goto(next) ==
    /\ pc' = next
    /\ UNCHANGED <<exc, exit_code, tmpdir>>

\* Lines 73-88: choose the source tree, cloning it when asked to.
AcquireSource ==
    /\ pc = "source"
    /\ UNCHANGED <<args, scratch, scratch0, fvars, ivars>>
    /\ IF args.clean_repo_branch = "None"
       THEN /\ Goto("prepare")
            /\ log' = log
       ELSE \E rc \in ExitCodes :
            /\ log' = Append(log, Event("clone_source", rc))
            /\ IF rc = 0
               THEN /\ pc' = "prepare"
                    /\ tmpdir' = "exists"
                    /\ UNCHANGED <<exc, exit_code>>
               ELSE /\ pc' = "exited"
                    /\ exc' = [type |-> "CalledProcessError", at |-> pc]
                    /\ exit_code' = UncaughtExit
                    /\ tmpdir' = ExitStackClose("exists")

\* Lines 90-97: --delete-prior, then the emptiness requirement.
PrepareScratch ==
    /\ pc = "prepare"
    /\ UNCHANGED <<args, scratch0, log, fvars, ivars>>
    /\ IF ~PublishRequested
       THEN /\ Goto("build")
            /\ scratch' = scratch
       ELSE LET s == IF args.delete_prior THEN DeletePrior(scratch) ELSE scratch
                r == CheckScratch(s)
            IN  /\ scratch' = s
                /\ IF r = "ok" THEN Goto("clone_remote") ELSE Raise(r)

\* Lines 99-101: the shallow clone of the output branch into the scratch
\* directory.
CloneRemote ==
    /\ pc = "clone_remote"
    /\ UNCHANGED <<args, scratch0, fvars, ivars>>
    /\ IF args.skip_remote_clone
       THEN /\ Goto("wipe")
            /\ UNCHANGED <<log, scratch>>
       ELSE \E rc \in ExitCodes, tracked \in SUBSET {"page", ".nojekyll"} :
            /\ log' = Append(log, Event("clone_remote", rc))
            /\ IF rc = 0
               THEN /\ scratch' = [exists |-> TRUE, entries |-> {".git"} \cup tracked]
                    /\ Goto("wipe")
               ELSE /\ tracked = {}
                    /\ scratch' = scratch
                    /\ Raise("CalledProcessError")

\* Lines 102-103: git rm -rf . in the scratch directory.
WipePrior ==
    /\ pc = "wipe"
    /\ UNCHANGED <<args, scratch0, fvars, ivars>>
    /\ \E rc \in ExitCodes :
        /\ log' = Append(log, Event("rm", rc))
        /\ IF rc = 0
           THEN /\ scratch' = [scratch EXCEPT !.entries = @ \cap {".git"}]
                /\ Goto("build")
           ELSE /\ scratch' = scratch
                /\ Raise("CalledProcessError")

\* Lines 105-116: build_main is called and its result is discarded.  A build
\* that succeeds has written its output; one that fails has written any part
\* of it, or nothing.
Build ==
    /\ pc = "build"
    /\ UNCHANGED <<args, scratch0, fvars, ivars>>
    /\ \E rc \in BuildCodes, out \in SUBSET BuildOutput, made \in BOOLEAN :
        /\ rc = 0 => (out = BuildOutput /\ made)
        /\ ~made => out = {}
        /\ log' = Append(log, Event("build", rc))
        /\ scratch' = IF made
                      THEN [exists |-> TRUE, entries |-> scratch.entries \cup out]
                      ELSE scratch
        /\ Goto("marker")

\* Lines 117-119: the .nojekyll marker, then the publish gate.
WriteMarker ==
    /\ pc = "marker"
    /\ UNCHANGED <<args, scratch0, fvars, ivars>>
    /\ IF ~scratch.exists
       THEN /\ Raise("FileNotFoundError")
            /\ UNCHANGED <<log, scratch>>
       ELSE /\ scratch' = [scratch EXCEPT !.entries = @ \cup {".nojekyll"}]
            /\ log' = Append(log, Event("write_nojekyll", 0))
            /\ IF PublishRequested THEN Goto("unlink") ELSE Return

\* Line 120: scratch_dir.joinpath(".buildinfo").unlink().
UnlinkBuildinfo ==
    /\ pc = "unlink"
    /\ UNCHANGED <<args, scratch0, log, fvars, ivars>>
    /\ IF ".buildinfo" \in scratch.entries
       THEN /\ scratch' = [scratch EXCEPT !.entries = @ \ {".buildinfo"}]
            /\ Goto("add")
       ELSE /\ scratch' = scratch
            /\ Raise("FileNotFoundError")

\* Lines 121-122: git add .
Stage ==
    /\ pc = "add"
    /\ UNCHANGED <<args, scratch, scratch0, fvars, ivars>>
    /\ \E rc \in ExitCodes :
        /\ log' = Append(log, Event("add", rc))
        /\ IF rc = 0 THEN Goto("commit") ELSE Raise("CalledProcessError")

\* Lines 123-126: git commit, then the push gate.
Commit ==
    /\ pc = "commit"
    /\ UNCHANGED <<args, scratch, scratch0, fvars, ivars>>
    /\ \E rc \in ExitCodes :
        /\ log' = Append(log, Event("commit", rc))
        /\ IF rc # 0 THEN Raise("CalledProcessError")
           ELSE IF PushRequested THEN Goto("push")
           ELSE Return

\* Line 127: git push.
Push ==
    /\ pc = "push"
    /\ UNCHANGED <<args, scratch, scratch0, fvars, ivars>>
    /\ \E rc \in ExitCodes :
        /\ log' = Append(log, Event("push", rc))
        /\ IF rc = 0 THEN Return ELSE Raise("CalledProcessError")

Next ==
    \/ AcquireSource
    \/ PrepareScratch
    \/ CloneRemote
    \/ WipePrior
    \/ Build
    \/ WriteMarker
    \/ UnlinkBuildinfo
    \/ Stage
    \/ Commit
    \/ Push

Spec == Init /\ [][Next]_vars

(***************************************************************************)
(* include-fixup.py                                                        *)
(* A file is a sequence of tokens: "#include" (the directive keyword), a   *)
(* blank, a double quote, a word character, and characters that are none   *)
(* of these.  "\r" and "\n" are the line-ending bytes.                     *)
(***************************************************************************)

MaxRuns == 2
MaxLineSegs == 5
MaxFileLines == 1

DQ == "\""
LF == "\n"
CR == "\r"

\* \s and \w of INCLUDE_RE, over the tokens of the model.
IsSpace(c) == c = " "
IsWord(c) == c = "a"

RECURSIVE ReadText(_)
\* Path.read_text(): universal newlines, "\r\n" and "\r" are read as "\n".
ReadText(b) ==
    IF b = <<>> THEN <<>>
    ELSE IF Head(b) = CR
         THEN IF Len(b) >= 2 /\ b[2] = LF
              THEN <<LF>> \o ReadText(SubSeq(b, 3, Len(b)))
              ELSE <<LF>> \o ReadText(Tail(b))
         ELSE <<Head(b)>> \o ReadText(Tail(b))

\* Path.write_text(new_lines, newline="\n"): "\n" is written untranslated.
WriteText(t) == t

RECURSIVE SplitLines(_)
\* str.split("\n")
SplitLines(t) ==
    IF \A i \in 1..Len(t) : t[i] # LF THEN <<t>>
    ELSE LET i == CHOOSE k \in 1..Len(t) :
                    t[k] = LF /\ \A m \in 1..(k - 1) : t[m] # LF
         IN  <<SubSeq(t, 1, i - 1)>> \o SplitLines(SubSeq(t, i + 1, Len(t)))

RECURSIVE JoinLines(_)
\* "\n".join(...)
JoinLines(ls) ==
    IF Len(ls) = 1 THEN ls[1]
    ELSE ls[1] \o <<LF>> \o JoinLines(Tail(ls))

\* INCLUDE_RE matches with its "#include" at position i of the line: blanks
\* (at least one) up to a quote at j, a word character at j + 1, and a later
\* quote.  The \s* before "#include" only moves the start of the match.
OpensAt(ln, i, j) ==
    /\ ln[i] = "#include"
    /\ j >= i + 2 /\ j + 2 <= Len(ln)
    /\ \A k \in (i + 1)..(j - 1) : IsSpace(ln[k])
    /\ ln[j] = DQ
    /\ IsWord(ln[j + 1])
    /\ \E c \in (j + 2)..Len(ln) : ln[c] = DQ

MatchAt(ln, i) == \E j \in 1..Len(ln) : OpensAt(ln, i, j)

HasMatch(ln) == \E i \in 1..Len(ln) : MatchAt(ln, i)

\* re.sub scans from the left: the first match is the leftmost.
FirstMatch(ln) ==
    CHOOSE i \in 1..Len(ln) : MatchAt(ln, i) /\ \A m \in 1..(i - 1) : ~MatchAt(ln, m)

\* The quote between group 1 and group 2.
OpenQuote(ln) == CHOOSE j \in 1..Len(ln) : OpensAt(ln, FirstMatch(ln), j)

\* The quote between group 2 and group 3: (\w.*) is greedy, so it is the last
\* quote of the line.
CloseQuote(ln) == CHOOSE c \in 1..Len(ln) : ln[c] = DQ /\ \A m \in (c + 1)..Len(ln) : ln[m] # DQ

\* INCLUDE_RE.sub(subst(fpath), ln): group 3 runs to the end of the line, so a
\* line has at most one match; f returns mat[1] < mat[2] > mat[3].
SubLine(ln) ==
    IF HasMatch(ln)
    THEN [ln EXCEPT ![OpenQuote(ln)] = "<", ![CloseQuote(ln)] = ">"]
    ELSE ln

\* The number of calls of f, each printing one message.
SubCount(ls) == Cardinality({k \in 1..Len(ls) : HasMatch(ls[k])})

\* Lines 51-53.
NewLines(old_lines) ==
    LET ls == SplitLines(old_lines)
    IN  JoinLines([k \in 1..Len(ls) |-> SubLine(ls[k])])

\* Lines 62-63: sys.exit(1) if err, else the interpreter ends with 0.
ExitAlwaysZero(err) == 0
ExitStatus(err) == IF err THEN 1 ELSE 0

\* Lines 50-61: one iteration of the loop over source_files.
ScanFileAlwaysWrites(fpath, st, only_check) ==
    LET old_lines == ReadText(st.disk[fpath])
        new_lines == NewLines(old_lines)
        counted == [st EXCEPT !.nsubst = @ + SubCount(SplitLines(old_lines))]
    IN  IF only_check
        THEN IF new_lines = old_lines THEN counted
             ELSE [counted EXCEPT !.diags = @ \cup {fpath}, !.err = TRUE]
        ELSE [counted EXCEPT !.disk[fpath] = WriteText(new_lines),
                             !.writes = @ \cup {fpath}]
ScanFile(fpath, st, only_check) ==
    LET old_lines == ReadText(st.disk[fpath])
        new_lines == NewLines(old_lines)
        counted == [st EXCEPT !.nsubst = @ + SubCount(SplitLines(old_lines))]
    IN  IF new_lines = old_lines THEN counted
        ELSE IF only_check
             THEN [counted EXCEPT !.diags = @ \cup {fpath}, !.err = TRUE]
             ELSE [counted EXCEPT !.disk[fpath] = WriteText(new_lines),
                                  !.writes = @ \cup {fpath}]

RECURSIVE Scan(_, _, _)
\* Lines 48-61: the loop.
Scan(fs, st, only_check) ==
    IF fs = <<>> THEN st
    ELSE Scan(Tail(fs), ScanFile(Head(fs), st, only_check), only_check)

\* One run of the script.
RunFixup(only_check) ==
    /\ files # <<>>
    /\ Len(history) < MaxRuns
    /\ LET st == Scan(files,
                      [disk |-> disk, err |-> FALSE, writes |-> {},
                       diags |-> {}, nsubst |-> 0],
                      only_check)
       IN  /\ disk' = st.disk
           /\ history' = Append(history,
                  [only_check |-> only_check, before |-> disk, after |-> st.disk,
                   writes |-> st.writes, diags |-> st.diags,
                   nsubst |-> st.nsubst, status |-> ExitStatus(st.err)])
    /\ UNCHANGED <<files, ovars, ivars>>

Rewrite == RunFixup(FALSE)

Check == RunFixup(TRUE)

NextFixup == Rewrite \/ Check

RECURSIVE Concats(_, _)
\* The sequences made of at most n of the segments S.
Concats(S, n) ==
    IF n = 0 THEN {<<>>}
    ELSE LET P == Concats(S, n - 1) IN P \cup {p \o x : p \in P, x \in S}

\* docs-build.py is not running.
InitOrchestratorIdle ==
    /\ args = [clean_repo_branch |-> "None", commit_branch |-> "None",
               skip_remote_clone |-> FALSE, delete_prior |-> FALSE,
               push |-> FALSE]
    /\ pc = "idle"
    /\ tmpdir = "none"
    /\ scratch = [exists |-> FALSE, entries |-> {}]
    /\ scratch0 = scratch
    /\ log = <<>>
    /\ exit_code = -1
    /\ exc = NoExc

\* One source file of one line, made of these pieces: the beginning of a
\* quoted directive, and single tokens.
LineSegs ==
    { <<"#include", " ", DQ, "a">>,
      <<"#include">>, <<DQ>>, <<" ">>, <<"a">>, <<"/">> }

InitLine ==
    /\ InitOrchestratorIdle
    /\ files = <<"src/a.c">>
    /\ disk \in [{"src/a.c"} -> Concats(LineSegs, MaxLineSegs)]
    /\ history = <<>>
    /\ InitInventoryIdle

SpecLine == InitLine /\ [][NextFixup]_vars

\* One file under each of dirs, src/ and include/, of at most MaxFileLines
\* lines: a quoted directive, a directive in angle brackets or plain text,
\* ended by "\n" or by "\r\n".
LineTexts ==
    { <<"#include", " ", DQ, "a", DQ>>,
      <<"#include", " ", "<", "a", ">">>,
      <<"a">> }

FileSegs == {t \o e : t \in LineTexts, e \in {<<LF>>, <<CR, LF>>}}

InitFiles ==
    /\ InitOrchestratorIdle
    /\ files = <<"src/a.c", "include/a.h">>
    /\ disk \in [{"src/a.c", "include/a.h"} -> Concats(FileSegs, MaxFileLines)]
    /\ history = <<>>
    /\ InitInventoryIdle

SpecFiles == InitFiles /\ [][NextFixup]_vars

(***************************************************************************)
(* docs/conf.py: generate_sphinx_inventory                                 *)
(* Bytes are sequences of tokens; a file is absent or holds bytes.         *)
(***************************************************************************)

MaxItems == 1

\* InvItem values: one without disp_name (None), one with two refnames.
InvItems ==
    { [refnames |-> <<"size_t">>, role |-> "cpp:type",
       path |-> "c/types/size_t", disp_name |-> ""],
      [refnames |-> <<"std__move", "move">>, role |-> "cpp:function",
       path |-> "cpp/utility/move", disp_name |-> "std::move"] }

ItemLists == Concats({<<i>> : i \in InvItems}, MaxItems)

OutPaths == {"cppref.generated.inv", "other.inv"}

ProjectNames == {"cppreference"}

ProjectVersions == {"0", "1"}

\* f"{refname} {i.role} 1 {i.path} {i.disp_name or refname}\n"
RefLine(refname, i) ==
    <<refname, " ", i.role, " ", "1", " ", i.path, " ",
      IF i.disp_name = "" THEN refname ELSE i.disp_name, LF>>

RECURSIVE RefLines(_, _)
\* b"".join(... for refname in i.refnames)
RefLines(names, i) ==
    IF names = <<>> THEN <<>>
    ELSE RefLine(Head(names), i) \o RefLines(Tail(names), i)

RECURSIVE Payload(_)
\* b"".join(... for i in items)
Payload(items) ==
    IF items = <<>> THEN <<>>
    ELSE RefLines(Head(items).refnames, Head(items)) \o Payload(Tail(items))

\* zlib.compress: a function of its input that can be undone, and never empty.
Compress(dat) == <<"zlib(">> \o dat \o <<")">>

\* newdat: the four header lines, then the compressed records.
NewDat(project_name, project_version, items) ==
    <<"# Sphinx inventory version 2", LF,
      "# Project: ", project_name, LF,
      "# Version: ", project_version, LF,
      "# The remainder of this file is compressed using zlib.", LF>>
    \o Compress(Payload(items))

\* out_inv.read_bytes(), with b"" for a file that is not found.
ReadBytes(f) == IF f.exists THEN f.bytes ELSE <<>>

\* if newdat != cur
ShouldWriteAlways(newdat, cur) == TRUE
ShouldWrite(newdat, cur) == newdat # cur

\* The last two of a sequence of calls.
LastTwo(cs) == IF Len(cs) > 2 THEN Tail(cs) ELSE cs

\* One call of generate_sphinx_inventory.
GenerateInventory ==
    /\ inv_fs # <<>>
    /\ \E out_inv \in OutPaths, project_name \in ProjectNames,
          project_version \in ProjectVersions, items \in ItemLists :
        LET newdat == NewDat(project_name, project_version, items)
            cur == ReadBytes(inv_fs[out_inv])
            wrote == ShouldWrite(newdat, cur)
        IN  /\ inv_fs' = IF wrote
                         THEN [inv_fs EXCEPT ![out_inv] = [exists |-> TRUE, bytes |-> newdat]]
                         ELSE inv_fs
            /\ inv_cur' = inv_fs[out_inv]
            /\ inv_calls' = LastTwo(Append(inv_calls,
                   [out_inv |-> out_inv, project_name |-> project_name,
                    project_version |-> project_version, items |-> items,
                    wrote |-> wrote]))
    /\ UNCHANGED <<ovars, fvars>>

\* Every output path is absent, empty, or holds an inventory generated before.
InitInventory ==
    /\ InitOrchestratorIdle
    /\ InitFixupIdle
    /\ inv_fs \in [OutPaths ->
          {NoFile} \cup
          [exists : {TRUE},
           bytes : {<<>>} \cup {NewDat(n, v, its) : n \in ProjectNames,
                                  v \in ProjectVersions, its \in ItemLists}]]
    /\ inv_calls = <<>>
    /\ inv_cur = NoFile

SpecInventory == InitInventory /\ [][GenerateInventory]_vars

(***************************************************************************)
(* Properties of docs-build.py                                             *)
(***************************************************************************)

Exited == pc = "exited"

Ran(cmd) == \E i \in 1..Len(log) : log[i].cmd = cmd

RanBefore(cmd, i) == \E j \in 1..(i - 1) : log[j].cmd = cmd

BuildFailed == \E i \in 1..Len(log) : log[i].cmd = "build" /\ log[i].rc # 0

NonEmptyAtStart == scratch0.exists /\ scratch0.entries # {}

AllStepsSucceeded ==
    /\ exc = NoExc
    /\ \A i \in 1..Len(log) : log[i].rc = 0

\* C1: when build_main reports a failure the run aborts there: the .nojekyll
\* marker is not written and no git add, commit or push is run.
C1_FailedBuildAborts ==
    BuildFailed =>
        /\ Exited
        /\ log[Len(log)].cmd = "build"
        /\ ~Ran("write_nojekyll") /\ ~Ran("add") /\ ~Ran("commit") /\ ~Ran("push")

\* C2 as stated: for every combination of flags, a scratch directory that is
\* not empty and no --delete-prior make the process exit nonzero before any
\* external command has been invoked.
C2_NonEmptyScratchStopsEveryRun ==
    (Exited /\ NonEmptyAtStart /\ ~args.delete_prior) =>
        /\ exit_code # 0
        /\ log = <<>>

\* C2 amended: with --commit-branch given, a scratch directory that is not
\* empty and no --delete-prior make the process exit nonzero, and the only
\* external command that can have run before is the clone of the source tree
\* for --clean-repo-branch; with --commit-branch omitted the scratch
\* directory is not checked.
C2_NonEmptyScratchStopsPublish ==
    /\ (Exited /\ NonEmptyAtStart /\ ~args.delete_prior
            /\ args.commit_branch # "None") =>
        /\ exit_code # 0
        /\ \A i \in 1..Len(log) : log[i].cmd = "clone_source"
    /\ args.commit_branch = "None" => exc.type # "RuntimeError"

C2_Witness ==
    /\ Exited /\ NonEmptyAtStart /\ ~args.delete_prior
    /\ args.commit_branch # "None"
    /\ args.skip_remote_clone
    /\ log = <<Event("clone_source", 0)>>
    /\ exc = [type |-> "RuntimeError", at |-> "prepare"]
    /\ exit_code = 1

\* C3: with --clean-repo-branch the temporary clone directory no longer
\* exists once main has exited, on every exit path.
C3_TmpDirRemovedOnExit ==
    (Exited /\ args.clean_repo_branch # "None") => tmpdir = "removed"

C3_Witness ==
    /\ Exited /\ args.clean_repo_branch # "None"
    /\ exc = [type |-> "CalledProcessError", at |-> "push"]
    /\ tmpdir = "removed"

\* C4: with --commit-branch, a scratch directory that does not exist (in
\* particular after --delete-prior removed it) satisfies the emptiness
\* requirement: the run does not abort at the emptiness check.
C4_AbsentScratchPassesCheck ==
    (args.commit_branch # "None" /\ exc.at = "prepare") => scratch.exists

\* C5: with --commit-branch and --skip-remote-clone and a scratch directory
\* that holds a clone of the output branch, the run clones nothing from the
\* remote and goes on to remove the files of that clone.
C5_SkipCloneUsesExistingClone ==
    (Exited /\ args.commit_branch # "None" /\ args.skip_remote_clone
            /\ ".git" \in scratch0.entries /\ exc.at # "source") =>
        /\ ~Ran("clone_remote")
        /\ Ran("rm")

\* C6: the exit code is 0 exactly when every step succeeded, and when the
\* step that failed is an external command it is that command's exit code.
C6_ExitCodeIsFirstFailure ==
    Exited =>
        /\ exit_code = 0 <=> AllStepsSucceeded
        /\ \A i \in 1..Len(log) : log[i].rc # 0 => exit_code = log[i].rc

\* C7: git add and git commit run only after the build has returned and only
\* with --commit-branch; git push runs only after a commit that succeeded and
\* only with --commit-branch and --push; without --commit-branch no git
\* command is run against the scratch directory.
C7_PublishOrderedAndGated ==
    /\ \A i \in 1..Len(log) :
        /\ log[i].cmd \in {"add", "commit"} =>
            /\ args.commit_branch # "None"
            /\ RanBefore("build", i)
        /\ log[i].cmd = "push" =>
            /\ args.commit_branch # "None" /\ args.push
            /\ \E j \in 1..(i - 1) : log[j] = Event("commit", 0)
    /\ args.commit_branch = "None" =>
        \A i \in 1..Len(log) : log[i].cmd \notin ScratchGitCmds

C7_Witness ==
    /\ Exited /\ exit_code = 0
    /\ Ran("add") /\ Ran("commit") /\ Ran("push")

(***************************************************************************)
(* Properties of include-fixup.py                                          *)
(***************************************************************************)

Runs == 1..Len(history)

\* The path of a quoted directive ends at the first quote after it begins.
PathEnd(ln) ==
    CHOOSE c \in 1..Len(ln) :
        /\ c > OpenQuote(ln) /\ ln[c] = DQ
        /\ \A m \in (OpenQuote(ln) + 1)..(c - 1) : ln[m] # DQ

\* The line with the two quotes that delimit the path replaced.
QuotesToAngles(ln) == [ln EXCEPT ![OpenQuote(ln)] = "<", ![PathEnd(ln)] = ">"]

\* C8: a rewrite run on the output of a rewrite run performs no substitution
\* and writes no file.
C8_SecondRewriteIsNoOp ==
    \A r \in Runs :
        (r >= 2 /\ ~history[r].only_check /\ ~history[r - 1].only_check) =>
            /\ history[r].nsubst = 0
            /\ history[r].writes = {}

\* C9: rewrite mode turns every line that holds a quoted directive into the
\* same line with only the two quotes around the path replaced by < and >.
C9_OnlyPathQuotesReplaced ==
    \A r \in Runs : ~history[r].only_check =>
        \A f \in DOMAIN history[r].before :
            LET old == SplitLines(ReadText(history[r].before[f]))
                new == SplitLines(ReadText(history[r].after[f]))
            IN  /\ Len(new) = Len(old)
                /\ \A k \in 1..Len(old) :
                        HasMatch(old[k]) => new[k] = QuotesToAngles(old[k])

\* What a rewrite run started on the files d leaves on disk.
RewriteOf(d) ==
    Scan(files, [disk |-> d, err |-> FALSE, writes |-> {}, diags |-> {}, nsubst |-> 0],
         FALSE).disk

\* C10: a --check run writes no file, names on the error stream exactly the
\* files a rewrite run would change, and exits 1 if there is one, else 0.
C10_CheckReportsAndWritesNothing ==
    \A r \in Runs : history[r].only_check =>
        LET h == history[r]
            offending == {f \in DOMAIN h.before : RewriteOf(h.before)[f] # h.before[f]}
        IN  /\ h.writes = {}
            /\ h.after = h.before
            /\ h.diags = offending
            /\ h.status = (IF offending # {} THEN 1 ELSE 0)

C10_Witness ==
    /\ Len(history) >= 1
    /\ history[1].only_check
    /\ history[1].diags = {"src/a.c", "include/a.h"}
    /\ history[1].status = 1
    /\ disk = history[1].before

\* The bytes b hold a quoted directive: "#include", blanks, a quote, a word
\* character and a later quote, all on one line.
QuotedDirectiveIn(b) ==
    \E i \in 1..Len(b), j \in 1..Len(b), c \in 1..Len(b) :
        /\ b[i] = "#include"
        /\ i + 2 <= j /\ j + 2 <= c
        /\ \A k \in (i + 1)..(j - 1) : b[k] = " "
        /\ b[j] = DQ /\ b[j + 1] = "a" /\ b[c] = DQ
        /\ \A k \in i..c : b[k] \notin {LF, CR}

\* C11: in both modes a file without a quoted directive is never written and
\* keeps its bytes, line endings included; rewrite mode writes only files in
\* which a substitution occurred.
C11_FilesWithoutDirectiveUntouched ==
    \A r \in Runs : \A f \in DOMAIN history[r].before :
        LET h == history[r] IN
        /\ ~QuotedDirectiveIn(h.before[f]) =>
            /\ f \notin h.writes
            /\ h.after[f] = h.before[f]
        /\ f \in h.writes =>
            /\ ~h.only_check
            /\ QuotedDirectiveIn(h.before[f])
            /\ h.after[f] # h.before[f]
        /\ f \notin h.writes => h.after[f] = h.before[f]

C11_Witness ==
    /\ Len(history) >= 1
    /\ ~history[1].only_check
    /\ history[1].writes = {"src/a.c"}
    /\ ~QuotedDirectiveIn(history[1].before["include/a.h"])
    /\ \E i \in 1..Len(disk["include/a.h"]) : disk["include/a.h"][i] = CR
    /\ disk["include/a.h"] = history[1].before["include/a.h"]

(***************************************************************************)
(* Properties of generate_sphinx_inventory                                 *)
(***************************************************************************)

CallArgs(c) == <<c.out_inv, c.project_name, c.project_version, c.items>>

CallDat(c) == NewDat(c.project_name, c.project_version, c.items)

\* C12: of two calls in a row with the same arguments the second finds the
\* generated bytes in the file and does not write; a call writes only when
\* the file is missing or its bytes differ from the generated bytes.
C12_SameArgumentsWriteOnce ==
    /\ (Len(inv_calls) = 2 /\ CallArgs(inv_calls[1]) = CallArgs(inv_calls[2])) =>
        /\ ~inv_calls[2].wrote
        /\ inv_cur = [exists |-> TRUE, bytes |-> CallDat(inv_calls[2])]
    /\ (Len(inv_calls) >= 1 /\ inv_calls[Len(inv_calls)].wrote) =>
        \/ ~inv_cur.exists
        \/ inv_cur.bytes # CallDat(inv_calls[Len(inv_calls)])

C12_Witness ==
    /\ Len(inv_calls) = 2
    /\ CallArgs(inv_calls[1]) = CallArgs(inv_calls[2])
    /\ inv_calls[1].wrote
    /\ ~inv_calls[2].wrote
    /\ inv_calls[2].items # <<>>

====
